---- MODULE Spec2Model ----
(***************************************************************************)
(* A model of redash/models/parameterized_query.py: the ParameterizedQuery *)
(* object (template, schema, data source, accumulated parameters, rendered *)
(* text), its apply operation with the per-type validators, and the        *)
(* read-only accessors missing_params, is_safe and text.                   *)
(*                                                                         *)
(* Python values are records of one shape, so that any two can be compared:*)
(*   t = "none" | "str" | "num" | "list" | "dict"                          *)
(*   s = the text of a str, the literal of a num                           *)
(*   l = the entries of a list (values)                                    *)
(*   d = the items of a dict, in insertion order, as <<key, value>> pairs  *)
(***************************************************************************)
EXTENDS Integers, Sequences, FiniteSets, TLC

VARIABLES
    template,     \* self.template: the parse tree of the template text
    schema,       \* self.schema: sequence of parameter definitions
    data_source,  \* self.data_source
    query,        \* self.query: the text returned by the text property
    parameters,   \* self.parameters: dict, as <<name, value>> pairs
    calls,        \* number of apply calls made so far
    last,         \* the last apply call: its argument and how it ended
    merged,       \* the arguments of the apply calls that returned, oldest first
    store,        \* the queries and their latest results, by query id
    dropdown      \* the last dropdown_values call: its argument and how it ended

vars == <<template, schema, data_source, query, parameters, calls, last, merged,
          store, dropdown>>

\* ------------------------------------------------------------------ bounds

MaxCalls == 2
MaxBatch == 2
MaxRows == 2

\* ------------------------------------------------------------ Python values

None == [t |-> "none", s |-> "", l |-> <<>>, d |-> <<>>]
Str(x) == [t |-> "str", s |-> x, l |-> <<>>, d |-> <<>>]
Num(x) == [t |-> "num", s |-> x, l |-> <<>>, d |-> <<>>]
List(x) == [t |-> "list", s |-> "", l |-> x, d |-> <<>>]
Dict(x) == [t |-> "dict", s |-> "", l |-> <<>>, d |-> x]

\* dict helpers over <<key, value>> pair sequences
DictKeys(d) == [i \in 1..Len(d) |-> d[i][1]]
DictHas(d, k) == \E i \in 1..Len(d) : d[i][1] = k
DictGet(d, k, default) ==
    IF DictHas(d, k) THEN d[CHOOSE i \in 1..Len(d) : d[i][1] = k][2] ELSE default
DictSet(d, k, v) ==
    IF DictHas(d, k)
    THEN [i \in 1..Len(d) |-> IF d[i][1] = k THEN <<k, v>> ELSE d[i]]
    ELSE Append(d, <<k, v>>)

\* a dict.update that replaces the dict
DictUpdate_replace(d, other) == other

RECURSIVE DictUpdate(_, _)
DictUpdate(d, other) ==
    IF other = <<>> THEN d
    ELSE DictUpdate(DictSet(d, other[1][1], other[1][2]), Tail(other))

SeqToSet(q) == {q[i] : i \in 1..Len(q)}

\* str(value)
PyStr(v) ==
    CASE v.t = "none" -> "None"
      [] v.t = "str" -> v.s
      [] v.t = "num" -> v.s
      [] v.t = "list" -> "[...]"
      [] v.t = "dict" -> "{...}"

\* float(s) for a string s: the strings float() parses, and the literal of the result
FloatStrs == {"1e3"}
FloatLit(s) == IF s = "1e3" THEN "1000.0" ELSE s

\* the strings dateutil's parse() accepts
DateStrs == {"2000-01-01", "2000-12-31"}

\* k.lower() on the column names in use
Lower(k) ==
    CASE k = "Name" -> "name"
      [] k = "Value" -> "value"
      [] k = "ID" -> "id"
      [] OTHER -> k

\* s.split("\n") on the option strings in use
SplitLines(s) == IF s = "baz\nqux" THEN <<"baz", "qux">> ELSE <<s>>

\* what a call does: return a value (exc = "") or raise the named exception
Return(v) == [exc |-> "", val |-> v]
Raise(e) == [exc |-> e, val |-> None]

\* --------------------------------------------- the query / query-result store

\* models.Query / models.QueryResult as _load_result sees them, as the instances
\* under validation find them: query 1 has a data source and a latest result, query 2
\* is detached from any data source.
Queries ==
    [id \in {1, 2} |->
        IF id = 1
        THEN [data_source |-> TRUE,
              data |-> [columns |-> <<"id", "Name", "Value">>,
                        rows |-> << <<<<"id", Num("5")>>, <<"Name", Str("John")>>,
                                      <<"Value", Str("baz")>>>>,
                                    <<<<"id", Num("6")>>, <<"Name", Str("Jane")>>,
                                      <<"Value", Num("7")>>>> >>]]
        ELSE [data_source |-> FALSE,
              data |-> [columns |-> <<>>, rows |-> <<>>]]]

_load_result(query_id) ==
    IF store[query_id].data_source
    THEN [exc |-> "", data |-> store[query_id].data]
    ELSE [exc |-> "QueryDetachedFromDataSourceError", data |-> store[query_id].data]

RECURSIVE LowerKeys(_, _)
LowerKeys(row, acc) ==
    IF row = <<>> THEN acc
    ELSE LowerKeys(Tail(row), DictSet(acc, Lower(row[1][1]), row[1][2]))

\* a _pluck_name_and_value that always takes the default column
_pluck_name_and_value_default(default_column, row) ==
    LET Pluck(r) ==
            [name |-> DictGet(r, Lower(default_column), None),
             value |-> Str(PyStr(DictGet(r, Lower(default_column), None)))]
    IN  Pluck(LowerKeys(row, <<>>))

_pluck_name_and_value(default_column, row) ==
    LET Pluck(r) ==
            LET name_column == IF DictHas(r, "name") THEN "name" ELSE Lower(default_column)
                value_column == IF DictHas(r, "value") THEN "value" ELSE Lower(default_column)
            IN  [name |-> DictGet(r, name_column, None),
                 value |-> Str(PyStr(DictGet(r, value_column, None)))]
    IN  Pluck(LowerKeys(row, <<>>))

dropdown_values(query_id) ==
    LET Values(res) ==
            IF res.exc # "" THEN [exc |-> res.exc, values |-> <<>>]
            ELSE [exc |-> "",
                  values |-> [i \in 1..Len(res.data.rows) |->
                                 _pluck_name_and_value(res.data.columns[1],
                                                       res.data.rows[i])]]
    IN  Values(_load_result(query_id))

\* ------------------------------------------------------------ the validators

\* data sources: none bound, or one whose query runner does or does not escape
NoDataSource == [bound |-> FALSE, supports_escape |-> FALSE]
DataSource(supports) == [bound |-> TRUE, supports_escape |-> supports]

\* query_runner.escape_parameter
escape_parameter(s) == "'" \o s \o "'"

_maybe_escape(definition, value, ds) ==
    IF ~definition.escape THEN Return(value)
    ELSE IF ~ds.bound THEN Raise("AttributeError")
    ELSE IF ds.supports_escape THEN Return(Str(escape_parameter(value.s)))
    ELSE Return(value)

_handle_text(definition, value, ds) ==
    IF value.t = "none" /\ definition.optional THEN Return(None)
    ELSE IF value.t # "str" THEN Raise("ValueError")
    ELSE _maybe_escape(definition, value, ds)

_handle_number(definition, value, ds) ==
    IF value.t = "none" /\ definition.optional THEN Return(None)
    ELSE IF value.t = "num" THEN Return(value)
    ELSE IF value.t = "str" /\ value.s \in FloatStrs THEN Return(Num(FloatLit(value.s)))
    ELSE Raise("ValueError")

_handle_date(definition, value, ds) ==
    IF value.t = "none" /\ definition.optional THEN Return(None)
    ELSE IF value.t = "str" /\ value.s \in DateStrs THEN Return(value)
    ELSE Raise("ValueError")

_handle_date_range(definition, obj, ds) ==
    IF obj.t = "none" /\ definition.optional
    THEN Return(Dict(<<<<"start", None>>, <<"end", None>>>>))
    ELSE IF obj.t # "dict" \/ ~DictHas(obj.d, "start") \/ ~DictHas(obj.d, "end")
    THEN Raise("ValueError")
    ELSE LET Both(start, end) ==
                 IF start.exc # "" THEN start
                 ELSE IF end.exc # "" THEN end
                 ELSE Return(Dict(<<<<"start", start.val>>, <<"end", end.val>>>>))
         IN  Both(_handle_date(definition, DictGet(obj.d, "start", None), ds),
                  _handle_date(definition, DictGet(obj.d, "end", None), ds))

\* definition.get("multiValuesOptions", {}).get(key, default), as a str
MultiOption(definition, key, default) ==
    PyStr(DictGet(definition.multiValuesOptions.d, key, Str(default)))

RECURSIVE JoinFrom(_, _, _, _, _)
JoinFrom(definition, values, ds, i, acc) ==
    IF i > Len(values) THEN Return(Str(acc))
    ELSE LET sep == IF i = 1 THEN "" ELSE MultiOption(definition, "separator", ",")
             Joined(e) ==
                 IF e.exc # "" THEN e
                 ELSE JoinFrom(definition, values, ds, i + 1,
                               acc \o sep \o MultiOption(definition, "prefix", "")
                                   \o e.val.s \o MultiOption(definition, "suffix", ""))
         IN  Joined(_maybe_escape(definition, Str(values[i]), ds))

\* a _join_list_values that reads no multi-value options
_join_list_values_bare(definition, values, ds) ==
    JoinFrom([definition EXCEPT !.multiValuesOptions = Dict(<<>>)], values, ds, 1, "")

_join_list_values(definition, values, ds) == JoinFrom(definition, values, ds, 1, "")

\* the two options getters: each returns the option strings, or raises
get_enum_options(definition) ==
    LET options == definition.enumOptions
    IN  IF options.t = "str" THEN [exc |-> "", options |-> SplitLines(options.s)]
        ELSE IF options.t = "list"
        THEN [exc |-> "", options |-> [i \in 1..Len(options.l) |-> options.l[i].s]]
        \* set(None)
        ELSE [exc |-> "TypeError", options |-> <<>>]

get_query_options(definition) ==
    LET Options(dv) ==
            [exc |-> dv.exc,
             options |-> [i \in 1..Len(dv.values) |-> dv.values[i].value.s]]
    IN  Options(dropdown_values(definition.queryId))

options_getter(definition) ==
    IF definition.type = "enum" THEN get_enum_options(definition)
    ELSE get_query_options(definition)

\* _handle_options looking the options up before the optional check
_handle_options_lookup_first(definition, value, ds) ==
    LET allow_multiple_values == definition.multiValuesOptions.t = "dict"
        optional == definition.optional
        Check(got) ==
            IF got.exc # "" THEN Raise(got.exc)
            ELSE IF value.t = "list" /\ ~allow_multiple_values THEN Raise("ValueError")
            ELSE IF optional /\ value \in {None, List(<<>>)} THEN Return(None)
            ELSE IF value.t = "list"
            THEN IF ~({PyStr(value.l[i]) : i \in 1..Len(value.l)}
                          \subseteq SeqToSet(got.options))
                 THEN Raise("ValueError")
                 ELSE _join_list_values(definition,
                                        [i \in 1..Len(value.l) |-> PyStr(value.l[i])], ds)
            ELSE IF PyStr(value) \notin SeqToSet(got.options) THEN Raise("ValueError")
            ELSE _maybe_escape(definition, Str(PyStr(value)), ds)
    IN  Check(options_getter(definition))

_handle_options(definition, value, ds) ==
    LET allow_multiple_values == definition.multiValuesOptions.t = "dict"
        optional == definition.optional
    IN  IF value.t = "list"
        THEN IF ~allow_multiple_values THEN Raise("ValueError")
             ELSE IF optional /\ value.l = <<>> THEN Return(None)
             ELSE LET Check(values, got) ==
                          IF got.exc # "" THEN Raise(got.exc)
                          ELSE IF ~(SeqToSet(values) \subseteq SeqToSet(got.options))
                          THEN Raise("ValueError")
                          ELSE _join_list_values(definition, values, ds)
                  IN  Check([i \in 1..Len(value.l) |-> PyStr(value.l[i])],
                            options_getter(definition))
        ELSE IF optional /\ value.t = "none" THEN Return(None)
             ELSE LET Check(v, got) ==
                          IF got.exc # "" THEN Raise(got.exc)
                          ELSE IF v \notin SeqToSet(got.options) THEN Raise("ValueError")
                          ELSE _maybe_escape(definition, Str(v), ds)
                  IN  Check(PyStr(value), options_getter(definition))

\* the handlers table of _handle
TextTypes == {"text"}
NumberTypes == {"number"}
OptionTypes == {"enum", "query"}
DateTypes == {"date", "datetime-local", "datetime-with-seconds"}
RangeTypes == {"date-range", "datetime-range", "datetime-range-with-seconds"}
HandledTypes == TextTypes \cup NumberTypes \cup OptionTypes \cup DateTypes \cup RangeTypes

handle(definition, value, ds) ==
    CASE definition.type \in TextTypes -> _handle_text(definition, value, ds)
      [] definition.type \in NumberTypes -> _handle_number(definition, value, ds)
      [] definition.type \in OptionTypes -> _handle_options(definition, value, ds)
      [] definition.type \in DateTypes -> _handle_date(definition, value, ds)
      [] definition.type \in RangeTypes -> _handle_date_range(definition, value, ds)

\* a _handle that validates even when the schema is empty
_handle_always_validates(sch, ds, name, value) ==
    IF ~\E i \in 1..Len(sch) : sch[i].name = name THEN Raise("ValueError")
    ELSE LET definition == sch[CHOOSE i \in 1..Len(sch) : sch[i].name = name]
         IN  IF definition.type \notin HandledTypes THEN Raise("TypeError")
             ELSE handle(definition, value, ds)

\* ParameterizedQuery._handle
_handle(sch, ds, name, value) ==
    IF sch = <<>> THEN Return(value)
    ELSE IF ~\E i \in 1..Len(sch) : sch[i].name = name THEN Raise("ValueError")
    ELSE LET definition == sch[CHOOSE i \in 1..Len(sch) :
                                   /\ sch[i].name = name
                                   /\ \A j \in 1..(i - 1) : sch[j].name # name]
         IN  IF definition.type \notin HandledTypes THEN Raise("TypeError")
             ELSE handle(definition, value, ds)

\* ------------------------------------------------------------- the template

\* pystache parse-tree nodes: plain text, {{key}}, {{#key}}..{{/key}}, {{^key}}..{{/key}}
Text(x) == [k |-> "text", key |-> x, parsed |-> <<>>]
EscapeNode(key) == [k |-> "escape", key |-> key, parsed |-> <<>>]
SectionNode(key, body) == [k |-> "section", key |-> key, parsed |-> body]
InvertedNode(key, body) == [k |-> "inverted", key |-> key, parsed |-> body]

\* funcy.distinct: first occurrences, in order
RECURSIVE distinct(_)
distinct(keys) ==
    IF keys = <<>> THEN <<>>
    ELSE LET rest == distinct(SubSeq(keys, 1, Len(keys) - 1))
             k == keys[Len(keys)]
         IN  IF k \in SeqToSet(rest) THEN rest ELSE Append(rest, k)

RECURSIVE CollectFrom(_, _, _)
CollectFrom(nodes, i, keys) ==
    IF i > Len(nodes) THEN distinct(keys)
    ELSE IF nodes[i].k = "escape" THEN CollectFrom(nodes, i + 1, Append(keys, nodes[i].key))
    ELSE IF nodes[i].k = "section"
    THEN CollectFrom(nodes, i + 1,
                     Append(keys, nodes[i].key) \o CollectFrom(nodes[i].parsed, 1, <<>>))
    ELSE CollectFrom(nodes, i + 1, keys)

_collect_key_names(nodes) == CollectFrom(nodes, 1, <<>>)

_collect_query_parameters(tpl) == _collect_key_names(tpl)

RECURSIVE NamesFrom(_, _, _)
NamesFrom(items, i, names) ==
    IF i > Len(items) THEN names
    ELSE LET key == items[i][1]
             value == items[i][2]
         IN  IF value.t = "dict"
             THEN NamesFrom(items, i + 1,
                            names \o [j \in 1..Len(value.d) |-> key \o "." \o value.d[j][1]])
             ELSE NamesFrom(items, i + 1, Append(names, key))

\* a _parameter_names that lists every key, object-valued or not
_parameter_names_bare(parameter_values) ==
    NamesFrom(parameter_values, 1, DictKeys(parameter_values))

_parameter_names(parameter_values) == NamesFrom(parameter_values, 1, <<>>)

\* the template text a parse tree stands for
RECURSIVE Source(_)
Source(nodes) ==
    IF nodes = <<>> THEN ""
    ELSE LET n == nodes[1]
             head == CASE n.k = "text" -> n.key
                       [] n.k = "escape" -> "{{" \o n.key \o "}}"
                       [] n.k = "section" ->
                            "{{#" \o n.key \o "}}" \o Source(n.parsed) \o "{{/" \o n.key \o "}}"
                       [] n.k = "inverted" ->
                            "{{^" \o n.key \o "}}" \o Source(n.parsed) \o "{{/" \o n.key \o "}}"
         IN  head \o Source(Tail(nodes))

\* key.split(".") on the placeholder names in use
DotParts(key) ==
    CASE key = "bar.start" -> <<"bar", "start">>
      [] key = "bar.end" -> <<"bar", "end">>
      [] OTHER -> <<key>>

Missing == [t |-> "missing", s |-> "", l |-> <<>>, d |-> <<>>]

\* the first name of a key is looked up through the context stack, innermost first
RECURSIVE LookupFirst(_, _)
LookupFirst(stack, name) ==
    IF stack = <<>> THEN Missing
    ELSE LET top == stack[Len(stack)]
         IN  IF top.t = "dict" /\ DictHas(top.d, name) THEN DictGet(top.d, name, None)
             ELSE LookupFirst(SubSeq(stack, 1, Len(stack) - 1), name)

RECURSIVE LookupRest(_, _, _)
LookupRest(value, parts, i) ==
    IF i > Len(parts) THEN value
    ELSE IF value.t = "dict" /\ DictHas(value.d, parts[i])
    THEN LookupRest(DictGet(value.d, parts[i], None), parts, i + 1)
    ELSE Missing

Lookup(stack, key) ==
    LET parts == DotParts(key)
        first == LookupFirst(stack, parts[1])
    IN  IF first.t = "missing" THEN Missing ELSE LookupRest(first, parts, 2)

Truthy(v) ==
    CASE v.t = "missing" -> FALSE
      [] v.t = "none" -> FALSE
      [] v.t = "str" -> v.s # ""
      [] v.t = "num" -> v.s # "0"
      [] v.t = "list" -> v.l # <<>>
      [] v.t = "dict" -> v.d # <<>>

RECURSIVE RenderNodes(_, _)
RECURSIVE RenderItems(_, _, _)
RenderNodes(nodes, stack) ==
    IF nodes = <<>> THEN ""
    ELSE LET n == nodes[1]
             v == Lookup(stack, n.key)
             head == CASE n.k = "text" -> n.key
                       [] n.k = "escape" ->
                            IF v.t \in {"missing", "none"} THEN "" ELSE PyStr(v)
                       [] n.k = "section" ->
                            IF ~Truthy(v) THEN ""
                            ELSE IF v.t = "list" THEN RenderItems(n.parsed, stack, v.l)
                            ELSE RenderNodes(n.parsed, Append(stack, v))
                       [] n.k = "inverted" ->
                            IF Truthy(v) THEN "" ELSE RenderNodes(n.parsed, stack)
         IN  head \o RenderNodes(Tail(nodes), stack)
RenderItems(body, stack, items) ==
    IF items = <<>> THEN ""
    ELSE RenderNodes(body, Append(stack, items[1])) \o RenderItems(body, stack, Tail(items))

\* redash.utils.mustache_render: interpolation and sections, no markup escaping
mustache_render(tpl, context) == RenderNodes(tpl, <<Dict(context)>>)

\* ------------------------------------------------------- ParameterizedQuery

\* an apply loop that records every exception as a validation failure
RECURSIVE ApplyLoop_catch_all(_, _, _, _, _)
ApplyLoop_catch_all(sch, ds, params, i, invalid_parameter_names) ==
    IF i > Len(params)
    THEN [exc |-> "", parameters |-> params, invalid |-> invalid_parameter_names]
    ELSE LET name == params[i][1]
             Handled(r) ==
                 ApplyLoop_catch_all(
                     sch, ds,
                     IF r.exc = "" THEN DictSet(params, name, r.val) ELSE params,
                     i + 1,
                     IF r.exc = "" THEN invalid_parameter_names
                     ELSE Append(invalid_parameter_names, name))
         IN  Handled(_handle(sch, ds, name, params[i][2]))

\* the loop of apply over dict(parameters): every value is replaced by what _handle
\* returns; ValueError and TypeError are recorded, anything else leaves the loop
RECURSIVE ApplyLoop(_, _, _, _, _)
ApplyLoop(sch, ds, params, i, invalid_parameter_names) ==
    IF i > Len(params)
    THEN [exc |-> "", parameters |-> params, invalid |-> invalid_parameter_names]
    ELSE LET name == params[i][1]
             Handled(r) ==
                 IF r.exc \notin {"", "ValueError", "TypeError"}
                 THEN [exc |-> r.exc, parameters |-> params,
                       invalid |-> invalid_parameter_names]
                 ELSE ApplyLoop(sch, ds,
                                IF r.exc = "" THEN DictSet(params, name, r.val) ELSE params,
                                i + 1,
                                IF r.exc = "" THEN invalid_parameter_names
                                ELSE Append(invalid_parameter_names, name))
         IN  Handled(_handle(sch, ds, name, params[i][2]))

\* an apply that merges what validated before it raises
apply_partial_merge(tpl, sch, ds, self_parameters, self_query, params) ==
    LET After(r) ==
            IF r.exc # ""
            THEN [raised |-> r.exc, names |-> <<>>,
                  parameters |-> self_parameters, query |-> self_query]
            ELSE [raised |-> IF r.invalid # <<>> THEN "InvalidParameterError" ELSE "",
                  names |-> r.invalid,
                  parameters |-> DictUpdate(self_parameters, r.parameters),
                  query |-> IF r.invalid # <<>> THEN self_query
                            ELSE mustache_render(tpl, r.parameters)]
    IN  After(ApplyLoop(sch, ds, params, 1, <<>>))

\* an apply that reports the first invalid name only
apply_first_only(tpl, sch, ds, self_parameters, self_query, params) ==
    LET After(r) ==
            IF r.exc # ""
            THEN [raised |-> r.exc, names |-> <<>>,
                  parameters |-> self_parameters, query |-> self_query]
            ELSE IF r.invalid # <<>>
            THEN [raised |-> "InvalidParameterError", names |-> <<r.invalid[1]>>,
                  parameters |-> self_parameters, query |-> self_query]
            ELSE [raised |-> "", names |-> <<>>,
                  parameters |-> DictUpdate(self_parameters, r.parameters),
                  query |-> mustache_render(tpl, r.parameters)]
    IN  After(ApplyLoop(sch, ds, params, 1, <<>>))

\* an apply that renders the accumulated parameters
apply_render_accumulated(tpl, sch, ds, self_parameters, self_query, params) ==
    LET After(r) ==
            IF r.exc # ""
            THEN [raised |-> r.exc, names |-> <<>>,
                  parameters |-> self_parameters, query |-> self_query]
            ELSE IF r.invalid # <<>>
            THEN [raised |-> "InvalidParameterError", names |-> r.invalid,
                  parameters |-> self_parameters, query |-> self_query]
            ELSE [raised |-> "", names |-> <<>>,
                  parameters |-> DictUpdate(self_parameters, r.parameters),
                  query |-> mustache_render(tpl, DictUpdate(self_parameters,
                                                            r.parameters))]
    IN  After(ApplyLoop(sch, ds, params, 1, <<>>))

\* what apply(parameters) does on an instance: the exception it raises ("" when it
\* returns self), the names an InvalidParameterError lists, and the instance's
\* parameters and query afterwards
apply(tpl, sch, ds, self_parameters, self_query, params) ==
    LET After(r) ==
            IF r.exc # ""
            THEN [raised |-> r.exc, names |-> <<>>,
                  parameters |-> self_parameters, query |-> self_query]
            ELSE IF r.invalid # <<>>
            THEN [raised |-> "InvalidParameterError", names |-> r.invalid,
                  parameters |-> self_parameters, query |-> self_query]
            ELSE [raised |-> "", names |-> <<>>,
                  parameters |-> DictUpdate(self_parameters, r.parameters),
                  query |-> mustache_render(tpl, r.parameters)]
    IN  After(ApplyLoop(sch, ds, params, 1, <<>>))

\* an is_safe that does not ask the query runner whether it escapes
is_safe_ignores_runner(sch, ds) ==
    {i \in 1..Len(sch) : sch[i].type = "text" /\ (~ds.bound \/ ~sch[i].escape)} = {}

is_safe(sch, ds) ==
    LET text_parameters ==
            {i \in 1..Len(sch) :
                /\ sch[i].type = "text"
                /\ (~ds.bound \/ ~ds.supports_escape \/ ~sch[i].escape)}
    IN  text_parameters = {}

missing_params(tpl, self_parameters) ==
    SeqToSet(_collect_query_parameters(tpl)) \ SeqToSet(_parameter_names(self_parameters))

text(self_query) == self_query

\* ---------------------------------------------------------------- the inputs

\* a schema entry; absent keys read as .get() reads them: optional and escape as
\* false, enumOptions and multiValuesOptions as None
Def(name, type, optional, escape, enumOptions, queryId, multiValuesOptions) ==
    [name |-> name, type |-> type, optional |-> optional, escape |-> escape,
     enumOptions |-> enumOptions, queryId |-> queryId,
     multiValuesOptions |-> multiValuesOptions]

BazQux == List(<<Str("baz"), Str("qux")>>)
Quoted == Dict(<<<<"prefix", Str("'")>>, <<"suffix", Str("'")>>>>)
Piped == Dict(<<<<"separator", Str("|")>>>>)
Range == Dict(<<<<"start", Str("2000-01-01")>>, <<"end", Str("2000-12-31")>>>>)

\* the schemas an instance is constructed with
Schemas ==
    { <<>>,
      <<Def("foo", "text", FALSE, TRUE, None, 0, None),
        Def("bar", "number", TRUE, FALSE, None, 0, None)>>,
      <<Def("foo", "query", FALSE, FALSE, None, 2, None),
        Def("bar", "text", FALSE, TRUE, None, 0, None)>>,
      <<Def("foo", "enum", TRUE, FALSE, BazQux, 0, Quoted),
        Def("bar", "date-range", TRUE, FALSE, None, 0, None)>>,
      <<Def("foo", "burrito", FALSE, FALSE, None, 0, None),
        Def("bar", "text", FALSE, FALSE, None, 0, None)>>,
      <<Def("foo", "query", TRUE, FALSE, None, 1, Dict(<<>>))>> }

DataSources == {NoDataSource, DataSource(TRUE), DataSource(FALSE)}

Templates ==
    { <<Text("SELECT "), EscapeNode("bar"),
        SectionNode("foo", <<Text(" WHERE "), EscapeNode("foo"),
                             SectionNode("test", <<EscapeNode("nested")>>)>>),
        Text(";")>>,
      <<EscapeNode("foo"), Text(" "), EscapeNode("bar.start"), Text(" "),
        EscapeNode("bar.end"), EscapeNode("foo"),
        InvertedNode("foo", <<EscapeNode("unless")>>)>> }

\* the values and the mappings apply is called with
BatchNames == {"foo", "bar"}
BatchValues == {None, Str("baz"), Num("7"), Range}

Batches ==
    UNION { { b \in [1..n -> BatchNames \X BatchValues] :
                \A i, j \in 1..n : i # j => b[i][1] # b[j][1] } : n \in 0..MaxBatch }

\* ------------------------------------------------------------- the behaviour

NoCall == [batch |-> <<>>, raised |-> "-", names |-> <<>>]
NoOptions == [query_id |-> 0, exc |-> "-", values |-> <<>>]

\* ParameterizedQuery.__init__(template, schema, org, data_source)
Init ==
    /\ template \in Templates
    /\ \E given \in BOOLEAN, sch \in Schemas :
          schema = IF given /\ sch # <<>> THEN sch ELSE <<>>
    /\ data_source \in DataSources
    /\ query = Source(template)
    /\ parameters = <<>>
    /\ calls = 0
    /\ last = NoCall
    /\ merged = <<>>
    /\ store = Queries
    /\ dropdown = NoOptions

\* one call of apply
Apply(batch) ==
    /\ calls < MaxCalls
    /\ \E r \in {apply(template, schema, data_source, parameters, query, batch)} :
           /\ parameters' = r.parameters
           /\ query' = r.query
           /\ last' = [batch |-> batch, raised |-> r.raised, names |-> r.names]
           /\ merged' = IF r.raised = "" THEN Append(merged, batch) ELSE merged
    /\ calls' = calls + 1
    /\ UNCHANGED <<template, schema, data_source, store, dropdown>>

Next == \E batch \in Batches : Apply(batch)

Spec == Init /\ [][Next]_vars

\* ----------------------------------------- single-parameter calls, all kinds

\* every shape of definition of the parameter "foo"
Types == HandledTypes \cup {"burrito"}
FooDefinitions ==
    { Def("foo", t, o, e, None, 0, None) :
        t \in Types \ OptionTypes, o \in BOOLEAN, e \in BOOLEAN }
    \cup
    { Def("foo", "enum", o, e, opts, 0, m) :
        o \in BOOLEAN, e \in BOOLEAN,
        opts \in {None, BazQux, Str("baz\nqux")},
        m \in {None, Dict(<<>>), Quoted, Piped} }
    \cup
    { Def("foo", "query", o, e, None, q, m) :
        o \in BOOLEAN, e \in BOOLEAN, q \in {1, 2},
        m \in {None, Dict(<<>>), Quoted, Piped} }

FooValues ==
    { None, Str("baz"), Str("shlomo"), Str("1e3"), Str("2000-01-01"), Num("7"),
      List(<<>>), List(<<Str("qux"), Str("baz")>>), List(<<Str("shlomo"), Str("baz")>>),
      List(<<Num("7")>>), List(<<Num("7"), Str("baz")>>), Range,
      Dict(<<<<"start", Str("2000-01-01")>>>>),
      Dict(<<<<"start", None>>, <<"end", Str("2000-12-31")>>>>) }

OptionalTemplate ==
    <<Text("SELECT id, name FROM "), EscapeNode("table"),
      SectionNode("foo", <<Text(" WHERE foo = "), EscapeNode("foo"), Text(" ")>>),
      Text(";")>>

InitOne ==
    /\ template = OptionalTemplate
    /\ \E d \in FooDefinitions : schema = <<d>>
    /\ data_source \in DataSources
    /\ query = Source(template)
    /\ parameters = <<>>
    /\ calls = 0
    /\ last = NoCall
    /\ merged = <<>>
    /\ store = Queries
    /\ dropdown = NoOptions

NextOne == \E value \in FooValues : Apply(<<<<"foo", value>>>>)

SpecOne == InitOne /\ [][NextOne]_vars

\* ------------------------------------------- dropdown_values, all results

\* the query results: one to three columns, named in any case, and up to MaxRows
\* rows that hold a string or a number under every column
ColumnNames == {"ID", "Name", "value"}
CellValues == {Str("baz"), Num("7")}
Columns ==
    UNION { { c \in [1..n -> ColumnNames] : \A i, j \in 1..n : i # j => c[i] # c[j] } :
              n \in 1..Cardinality(ColumnNames) }
Rows(columns) ==
    { [i \in 1..Len(columns) |-> <<columns[i], cells[i]>>] :
        cells \in [1..Len(columns) -> CellValues] }
Results ==
    UNION { { [columns |-> columns, rows |-> rows] :
                rows \in UNION { [1..n -> Rows(columns)] : n \in 0..MaxRows } } :
            columns \in Columns }

InitDropdown ==
    /\ template = OptionalTemplate
    /\ schema = <<>>
    /\ data_source = NoDataSource
    /\ query = Source(template)
    /\ parameters = <<>>
    /\ calls = 0
    /\ last = NoCall
    /\ merged = <<>>
    /\ \E attached \in BOOLEAN, data \in Results :
          store = [Queries EXCEPT ![1] = [data_source |-> attached, data |-> data]]
    /\ dropdown = NoOptions

\* one call of dropdown_values
Dropdown(query_id) ==
    /\ calls < MaxCalls
    /\ \E r \in {dropdown_values(query_id)} :
           dropdown' = [query_id |-> query_id, exc |-> r.exc, values |-> r.values]
    /\ calls' = calls + 1
    /\ UNCHANGED <<template, schema, data_source, query, parameters, last, merged, store>>

NextDropdown == \E query_id \in DOMAIN Queries : Dropdown(query_id)

SpecDropdown == InitDropdown /\ [][NextDropdown]_vars

\* ------------------------------------------------------------------ claims

\* how validating one supplied entry ends on this instance
Outcome(entry) == _handle(schema, data_source, entry[1], entry[2]).exc

\* the names of a batch whose value fails validation
FailedNames(batch) ==
    {batch[i][1] : i \in {j \in 1..Len(batch) : Outcome(batch[j]) \in {"ValueError", "TypeError"}}}

\* some entry of the batch ends with an exception that is no validation failure
Escapes(batch) ==
    \E i \in 1..Len(batch) : Outcome(batch[i]) \notin {"", "ValueError", "TypeError"}

\* this step is a call of apply
Called == calls' = calls + 1

StateKept == parameters' = parameters /\ query' = query

NeedsDetachedQuery(entry) ==
    /\ \E i \in 1..Len(schema) : schema[i].name = entry[1]
    /\ LET definition == schema[CHOOSE i \in 1..Len(schema) : schema[i].name = entry[1]]
           value == entry[2]
       IN  /\ definition.type = "query"
           /\ ~store[definition.queryId].data_source
           /\ ~(definition.optional /\ value \in {None, List(<<>>)})
           /\ value.t = "list" => definition.multiValuesOptions.t = "dict"

\* C3: when the loop of apply comes to a query-kind value whose validation needs the
\* options of a query without data source, apply raises
\* QueryDetachedFromDataSourceError, not InvalidParameterError, whatever failed
\* before it in the batch, and leaves the parameter map and the text as they were.
C3_DetachedPropagates ==
    [][Called /\ (\E i \in 1..Len(last'.batch) :
                     /\ NeedsDetachedQuery(last'.batch[i])
                     /\ ~Escapes(SubSeq(last'.batch, 1, i - 1)))
         => /\ last'.raised = "QueryDetachedFromDataSourceError"
            /\ last'.names = <<>>
            /\ StateKept]_vars

\* the detached query is reached after another name of the batch failed validation,
\* on an instance that already holds parameters
C3_Witness ==
    /\ last.raised = "QueryDetachedFromDataSourceError"
    /\ Len(last.batch) = 2
    /\ FailedNames(SubSeq(last.batch, 1, 1)) # {}
    /\ NeedsDetachedQuery(last.batch[2])
    /\ parameters # <<>>

\* the value validation gives each entry of a batch
Validated(batch) ==
    [i \in 1..Len(batch) |-> <<batch[i][1], _handle(schema, data_source, batch[i][1],
                                                   batch[i][2]).val>>]

\* every name supplied to a call that returned is in the map, bound to the validated
\* value of the latest such call; no other name is
LatestWins ==
    /\ \A i, j \in 1..Len(parameters) : parameters[i][1] = parameters[j][1] => i = j
    /\ \A name \in BatchNames :
          LET supplied == {k \in 1..Len(merged) : DictHas(merged[k], name)}
          IN  IF supplied = {} THEN ~DictHas(parameters, name)
              ELSE LET k == CHOOSE m \in supplied : \A n \in supplied : n <= m
                   IN  /\ DictHas(parameters, name)
                       /\ DictGet(parameters, name, Missing)
                            = DictGet(Validated(merged[k]), name, Missing)
    /\ SeqToSet(DictKeys(parameters)) \subseteq BatchNames

\* C4: no call of apply, returning or raising, removes a name from the parameter map,
\* and each name is bound to the validated value of the latest call that returned and
\* supplied it.
C4_NeverLosesLatestWins ==
    /\ []LatestWins
    /\ [][SeqToSet(DictKeys(parameters)) \subseteq SeqToSet(DictKeys(parameters'))]_vars

\* two calls returned; one name comes from the first only, the other was overwritten
\* by the second with another value
C4_Witness ==
    /\ Len(merged) = 2
    /\ \E a, b \in BatchNames :
          /\ DictHas(merged[1], a) /\ ~DictHas(merged[2], a) /\ DictHas(parameters, a)
          /\ DictHas(merged[1], b) /\ DictHas(merged[2], b)
          /\ DictGet(merged[1], b, Missing) # DictGet(merged[2], b, Missing)

\* C5: the text is the template as written while no call of apply has returned, and
\* afterwards the rendering of the template with the validated values of the latest
\* call that returned, and with nothing else.
C5_TextRendersLatestCall ==
    text(query) = IF merged = <<>> THEN Source(template)
                  ELSE mustache_render(template, Validated(merged[Len(merged)]))

\* two calls with disjoint names returned: the text lacks what the first supplied,
\* and missing_params reports neither name
C5_Witness ==
    /\ Len(merged) = 2
    /\ SeqToSet(DictKeys(merged[1])) \cap SeqToSet(DictKeys(merged[2])) = {}
    /\ text(query) # mustache_render(template, parameters)
    /\ {"foo", "bar"} \cap missing_params(template, parameters) = {}
    /\ {"foo", "bar"} \subseteq SeqToSet(_collect_query_parameters(template))

\* the nodes of a template, level by level: the nodes of the text, those of the
\* bodies of its sections, and those of the bodies of the sections among these
SectionBodies(nodes) == UNION {SeqToSet(n.parsed) : n \in {m \in nodes : m.k = "section"}}
PlaceholderNodes(tpl) ==
    SeqToSet(tpl) \cup SectionBodies(SeqToSet(tpl))
        \cup SectionBodies(SectionBodies(SeqToSet(tpl)))
PlaceholderKeys(tpl) ==
    {n.key : n \in {m \in PlaceholderNodes(tpl) : m.k \in {"escape", "section"}}}

\* what a parameter map covers: "<name>.<subkey>" for every subkey of an object
\* value, the name itself for any other value
CoveredNames(map) ==
    UNION { IF map[i][2].t = "dict"
            THEN {map[i][1] \o "." \o map[i][2].d[j][1] : j \in 1..Len(map[i][2].d)}
            ELSE {map[i][1]} : i \in 1..Len(map) }

SafeAsStated ==
    is_safe(schema, data_source)
        = ~\E i \in 1..Len(schema) :
              /\ schema[i].type = "text"
              /\ \/ ~data_source.bound
                 \/ ~data_source.supports_escape
                 \/ ~schema[i].escape

\* C7: is_safe is false exactly when some text-kind entry would not be escaped, true
\* otherwise, and no call of apply changes it.
C7_IsSafe ==
    /\ []SafeAsStated
    /\ [][is_safe(schema', data_source') = is_safe(schema, data_source)]_vars

\* a schema with a text entry that is safe, after a call of apply
C7_Witness ==
    /\ calls > 0
    /\ is_safe(schema, data_source)
    /\ \E i \in 1..Len(schema) : schema[i].type = "text"

\* C8 as stated: apply returns, or raises InvalidParameterError or
\* QueryDetachedFromDataSourceError, and nothing else.
C8_RaisesOnlyItsTwoErrors ==
    last.raised \in {"-", "", "InvalidParameterError", "QueryDetachedFromDataSourceError"}

\* C9: on an instance with an empty schema every call of apply returns, binds every
\* supplied name to the value as supplied, and renders the text from those values.
C9_EmptySchemaPassesThrough ==
    schema = <<>> /\ calls > 0
        => /\ last.raised = ""
           /\ \A i \in 1..Len(last.batch) :
                 DictGet(parameters, last.batch[i][1], Missing) = last.batch[i][2]
           /\ text(query) = mustache_render(template, last.batch)

C9_Witness ==
    /\ schema = <<>>
    /\ calls = 2
    /\ Len(last.batch) = 2
    /\ \E i \in 1..2 : last.batch[i][2].t = "num"
    /\ text(query) # Source(template)

\* the empty result of a kind: an object of nulls for the range kinds, null otherwise
EmptyResult(type) ==
    IF type \in RangeTypes THEN Dict(<<<<"start", None>>, <<"end", None>>>>) ELSE None

\* C10: for an optional definition of a recognised kind, null (or the empty list, for
\* an enum or query definition with multi-value options) validates, whatever the
\* options or the source query are, and gives the kind's empty result; for a date
\* definition that is not optional, null is rejected.
C10_OptionalEmptyValue ==
    calls > 0 =>
        LET definition == schema[1]
            value == last.batch[1][2]
        IN  /\ ( /\ definition.optional
                 /\ definition.type \in HandledTypes
                 /\ \/ value = None
                    \/ /\ value = List(<<>>)
                       /\ definition.type \in OptionTypes
                       /\ definition.multiValuesOptions.t = "dict" )
                => /\ last.raised = ""
                   /\ DictGet(parameters, "foo", Missing) = EmptyResult(definition.type)
            /\ ( /\ ~definition.optional
                 /\ definition.type \in DateTypes
                 /\ value = None )
                => last.raised = "InvalidParameterError" /\ last.names = <<"foo">>

\* an optional query definition whose source query has no data source takes the
\* empty list
C10_Witness ==
    /\ calls > 0
    /\ schema[1].type = "query" /\ schema[1].optional /\ schema[1].queryId = 2
    /\ last.batch[1][2] = List(<<>>)
    /\ last.raised = ""
    /\ DictGet(parameters, "foo", Missing) = None

\* the stringified entries of a supplied value: of a list its entries, of a scalar
\* the value itself
Entries(value) ==
    IF value.t = "list" THEN [i \in 1..Len(value.l) |-> PyStr(value.l[i])]
    ELSE <<PyStr(value)>>

\* the allowed-option set of an enum or query definition; empty when it cannot be read
AllowedOptions(definition) == SeqToSet(options_getter(definition).options)

\* one entry as the joined result carries it: escaped as the instance escapes, then
\* wrapped with the prefix and the suffix
Wrapped(definition, entry) ==
    MultiOption(definition, "prefix", "")
        \o (IF definition.escape /\ data_source.supports_escape
            THEN escape_parameter(entry) ELSE entry)
        \o MultiOption(definition, "suffix", "")

\* the first n entries, wrapped, in input order, joined by the separator
RECURSIVE JoinedEntries(_, _, _)
JoinedEntries(definition, entries, n) ==
    IF n = 0 THEN ""
    ELSE (IF n = 1 THEN ""
          ELSE JoinedEntries(definition, entries, n - 1)
                   \o MultiOption(definition, "separator", ","))
         \o Wrapped(definition, entries[n])

\* C11: for an enum or query definition and a value that is not null: the call
\* returns only if every stringified entry is an allowed option; a list is reported
\* as invalid when the definition has no multiValuesOptions object, the empty list
\* on an optional definition included; with an empty multiValuesOptions object a
\* list of allowed options is accepted; and an accepted list that is not empty
\* gives its entries in input order, each between prefix and suffix, joined by the
\* separator, "," when none is set.
C11_OptionValues ==
    (calls > 0 /\ schema[1].type \in OptionTypes /\ last.batch[1][2] # None) =>
        LET definition == schema[1]
            value == last.batch[1][2]
            entries == Entries(value)
        IN  /\ last.raised = "" => SeqToSet(entries) \subseteq AllowedOptions(definition)
            /\ (value.t = "list" /\ definition.multiValuesOptions.t # "dict")
                   => last.raised = "InvalidParameterError" /\ last.names = <<"foo">>
            /\ ( /\ value.t = "list"
                 /\ definition.multiValuesOptions = Dict(<<>>)
                 /\ \/ definition.optional /\ entries = <<>>
                    \/ /\ options_getter(definition).exc = ""
                       /\ SeqToSet(entries) \subseteq AllowedOptions(definition)
                       /\ (definition.escape /\ entries # <<>>) => data_source.bound )
                   => last.raised = ""
            /\ (last.raised = "" /\ value.t = "list" /\ entries # <<>>)
                   => DictGet(parameters, "foo", Missing)
                          = Str(JoinedEntries(definition, entries, Len(entries)))

\* the list ["qux", "baz"] on an enum definition with quoting multi-value options
C11_Witness ==
    /\ calls > 0
    /\ schema[1].type = "enum" /\ schema[1].multiValuesOptions = Quoted
    /\ ~schema[1].escape
    /\ last.batch[1][2] = List(<<Str("qux"), Str("baz")>>)
    /\ last.raised = ""
    /\ DictGet(parameters, "foo", Missing) = Str("'qux','baz'")

\* a row's keys compared without case: whether one matches, and the entry under it
RowHas(row, key) == \E i \in 1..Len(row) : Lower(row[i][1]) = key
RowEntry(row, key) == row[CHOOSE i \in 1..Len(row) : Lower(row[i][1]) = key][2]

\* C12: a dropdown_values call that returns gives one option per row of the result,
\* in row order; with row keys compared without case, an option's name is the row's
\* "name" entry when the row has one and the first declared column's entry
\* otherwise, kept as it is, and its value is the string of the row's "value" entry
\* when the row has one and of the first declared column's entry otherwise.
C12_DropdownValues ==
    dropdown.exc = "" =>
        LET data == store[dropdown.query_id].data
            first == Lower(data.columns[1])
        IN  /\ Len(dropdown.values) = Len(data.rows)
            /\ \A i \in 1..Len(data.rows) :
                  /\ dropdown.values[i].name =
                         RowEntry(data.rows[i],
                                  IF RowHas(data.rows[i], "name") THEN "name" ELSE first)
                  /\ dropdown.values[i].value =
                         Str(PyStr(RowEntry(data.rows[i],
                                            IF RowHas(data.rows[i], "value") THEN "value"
                                            ELSE first)))

\* two rows of a result with columns ID and Name: the names come from Name, one of
\* them a number, and the values are the strings of the ID entries
C12_Witness ==
    /\ dropdown.exc = "" /\ dropdown.query_id = 1
    /\ store[1].data.columns = <<"ID", "Name">>
    /\ dropdown.values = << [name |-> Num("7"), value |-> Str("baz")],
                           [name |-> Str("baz"), value |-> Str("7")] >>

\* a supplied value that passes the type check of a text, enum or query definition:
\* a string for text; for enum and query a value that is not null, nor an empty list,
\* whose entries are all allowed options, a list only with multi-value options
PassesTypeCheck(definition, value) ==
    \/ definition.type \in TextTypes /\ value.t = "str"
    \/ /\ definition.type \in OptionTypes
       /\ value \notin {None, List(<<>>)}
       /\ value.t = "list" => definition.multiValuesOptions.t = "dict"
       /\ options_getter(definition).exc = ""
       /\ SeqToSet(Entries(value)) \subseteq AllowedOptions(definition)

\* C13 as stated: a text, enum or query value that passes its type check validates
\* on every instance, one constructed with no data source included; the result is
\* the value through the query runner's escape_parameter when the definition asks
\* for escape and the runner supports it, and the value unchanged otherwise.
C13_EscapeStep ==
    ( /\ calls > 0
      /\ schema[1].type \in TextTypes \cup OptionTypes
      /\ PassesTypeCheck(schema[1], last.batch[1][2]) )
        => /\ last.raised = ""
           /\ DictGet(parameters, "foo", Missing) =
                  IF last.batch[1][2].t = "list"
                  THEN Str(JoinedEntries(schema[1], Entries(last.batch[1][2]),
                                         Len(last.batch[1][2].l)))
                  ELSE IF schema[1].escape /\ data_source.supports_escape
                  THEN Str(escape_parameter(PyStr(last.batch[1][2])))
                  ELSE Str(PyStr(last.batch[1][2]))

====
